---- MODULE Spec2Model ----
\* DeepOta: the front end (deep_ota_front.py, the supervisor: one asyncio event
\* loop, one do_upload task per device) and the worker script (deep_ota.py, one
\* OS process per upload attempt), joined by the worker's stdout pipe.
\*
\* Modelled environment:
\*   - the operator typing command lines (update, stop, clear, exit; the
\*     read-only commands list/states/history/help change no state);
\*   - the esphome tool's exit codes, the MQTT broker (connection delay, messages
\*     on the <device>/ota topic), SIGINT delivered to a worker;
\*   - paho's publish() raises only for an invalid topic, payload or qos; the
\*     payloads and qos are fixed, so whether it raises is a property of the
\*     run's topic (topic_ok, found at the first publish), the same for every
\*     publish of one worker;
\*   - the asyncio event loop: a task runs only while interact() awaits input,
\*     a cancelled task sees CancelledError at its next step, and end-of-file on
\*     a worker's stdout is fed only after the data before it was consumed.
\* Time: time.time() in the supervisor is the logical clock `clock` (one tick
\* per set_state); in the worker's wake wait it is `waited`, the seconds slept.
EXTENDS Integers, Sequences, FiniteSets, TLC

\* ---------------------------------------------------------------- bounds
MaxProcs == 2        \* worker processes ever spawned
MaxCmds == 2         \* command lines the operator types
MaxPipe == 1         \* lines a worker's stdout pipe holds unread
SleepSeconds == 1    \* each device's deep_sleep_duration

\* ---------------------------------------------------- program constants
ConnectRetries == 5  \* connect_to_mqtt: while (count < 5)
PublishRetries == 5  \* send_msg: while (count >= 5) / if count >= 5

\* Device names as character sequences, so that the status-line pattern can be
\* evaluated on them.  "k" matches [a-z_\-]+ ; "k2" (a digit) does not.
DevK == <<"k">>
DevK2 == <<"k", "2">>
Devices == {DevK, DevK2}
Procs == 1..MaxProcs

deep_sleep_duration == [d \in Devices |-> SleepSeconds]

DeviceState ==
  {"STARTING", "END", "COMPILING", "SYNCING", "UPLOADING", "MQTT_ERROR",
   "SYNCING_ERROR", "COMPILE_ERROR", "TRANSMIT_ERROR", "ERROR", "SUCCESS",
   "CANCELLED", "NONE"}

Result ==
  {"OK", "ERR_MQTT_CONNECT", "ERR_MQTT_SEND", "ERR_MQTT_RECEIVE", "ERR_COMPILE",
   "ERR_TRANSMIT", "ERR_TIMEOUT"}

NoTask == [pc |-> "none", proc |-> 0, must_cancel |-> FALSE]
NoCmd == <<>>
Clear == "None"      \* the payload None of clear_topic (an empty retained message)

VARIABLES
  \* --- supervisor (deep_ota_front.py)
  state,           \* Device.state
  last_upload,     \* Device.last_upload (-1: never)
  task,            \* Device.task: [pc, proc, must_cancel]
  Device_history,  \* the class attribute Device.history (one list for the class)
  has_history,     \* the instance has its own history attribute (after clear_history)
  inst_history,    \* that instance attribute
  clock,           \* time.time()
  ipc,             \* interact(): "input", "shutdown" (asyncio.run's teardown), "ended"
  cmd_line,        \* the last command line read by interact(), NoCmd before the first
  ncmd,            \* command lines read so far
  \* --- workers (deep_ota.py), one per process slot
  wdev,            \* device_name (sys.argv[1])
  wpc,             \* position in run(); "unused" before spawn, "exited" after
  wexit,           \* exit status: "none", "0", "1", "2", "SIGINT", "SIGKILL"
  res,             \* run()'s res
  device_is_ready, \* the global set by on_message
  waited,          \* seconds slept in wait_for_device_ready
  topic_ok,        \* publish() on this run's request topic does not raise
  tx,              \* transmit_code's res, the upload tool's exit code ("none" before)
  pub,             \* payloads published on <device>/ota-req, in order
  pipe,            \* stdout lines written and not yet read: <<device, state>>
  weof,            \* end-of-file fed to the supervisor's StreamReader
  \* --- the history of the watched worker runs (read by properties only)
  watched,         \* the process slots whose run is recorded
  out,             \* the states of the lines written to stdout, read or not
  unacked,         \* payloads whose is_published() was false when send_msg() returned
  heard            \* a READY delivered after the ON publish and before the wait
                   \* ended: "no", "intime" (before the deadline) or "late"

svars == <<state, last_upload, task, Device_history, has_history, inst_history,
           clock, ipc, cmd_line, ncmd>>
wvars == <<wdev, wpc, wexit, res, device_is_ready, waited, topic_ok, tx, pub>>
hvars == <<watched, out, unacked, heard>>
vars == <<svars, wvars, pipe, weof, hvars>>

\* ------------------------------------------- worker process basics
\* log(msg, state) with is_subprocess set: one line [device_name,STATE] on
\* stdout, nothing for DeviceState.NONE.  A full pipe blocks the write.
CanLog(p) == Len(pipe[p]) < MaxPipe
log(p, st) ==
  /\ pipe' = [pipe EXCEPT ![p] = IF st = "NONE" THEN @ ELSE Append(@, <<wdev[p], st>>)]
  /\ out' = [out EXCEPT ![p] = IF st = "NONE" \/ p \notin watched THEN @ ELSE Append(@, st)]

Running(p) == wpc[p] \notin {"unused", "exited"}
goto(p, label) == wpc' = [wpc EXCEPT ![p] = label]
\* The process ends: its exit status stays, its memory (the globals) is gone.
exit(p, status) ==
  /\ wpc' = [wpc EXCEPT ![p] = "exited"]
  /\ wexit' = [wexit EXCEPT ![p] = status]
  /\ res' = [res EXCEPT ![p] = "OK"]
  /\ device_is_ready' = [device_is_ready EXCEPT ![p] = FALSE]
  /\ waited' = [waited EXCEPT ![p] = 0]
  /\ tx' = [tx EXCEPT ![p] = "none"]

\* proc.kill(): SIGKILL, the worker runs no further statement.
kill(p) == exit(p, "SIGKILL")

\* ------------------------------------------------------------ Device
\* self.history: the instance attribute when there is one, else the class's.
history(d) == IF has_history[d] THEN inst_history[d] ELSE Device_history

\* set_state() that forgets the history entry.
set_state_no_history(d, new_state) ==
  /\ state' = [state EXCEPT ![d] = new_state]
  /\ clock' = clock + 1
  /\ last_upload' = IF new_state = "SUCCESS"
                      THEN [last_upload EXCEPT ![d] = clock + 1]
                      ELSE last_upload
  /\ UNCHANGED <<has_history, inst_history, Device_history>>

set_state(d, new_state) ==
  /\ state' = [state EXCEPT ![d] = new_state]
  /\ clock' = clock + 1
  /\ IF has_history[d]
       THEN /\ inst_history' = [inst_history EXCEPT ![d] = Append(@, <<clock + 1, new_state>>)]
            /\ UNCHANGED Device_history
       ELSE /\ Device_history' = Append(Device_history, <<clock + 1, new_state>>)
            /\ UNCHANGED inst_history
  /\ last_upload' = IF new_state = "SUCCESS"
                      THEN [last_upload EXCEPT ![d] = clock + 1]
                      ELSE last_upload
  /\ UNCHANGED has_history

clear_history(d) ==
  /\ has_history' = [has_history EXCEPT ![d] = TRUE]
  /\ inst_history' = [inst_history EXCEPT ![d] = <<>>]
  /\ UNCHANGED <<state, last_upload, task, Device_history, clock>>

\* re.search("^\[([a-z_\-]+),([A-Z_]+)\]$", data): the names of DeviceState are
\* all made of A-Z and _, so a worker's line matches iff its device name does.
NamePattern ==
  {"a", "b", "c", "d", "e", "f", "g", "h", "i", "j", "k", "l", "m", "n", "o",
   "p", "q", "r", "s", "t", "u", "v", "w", "x", "y", "z", "_", "-"}

LineMatches(line) ==
  /\ Len(line[1]) > 0
  /\ \A i \in 1..Len(line[1]) : line[1][i] \in NamePattern

\* stdout.at_eof(): end-of-file was fed and the buffer is empty.
at_eof(p, buffer) == weof[p] /\ buffer = <<>>

TaskDone(d) == task[d].pc = "done"
\* The event loop runs tasks and callbacks until asyncio.run() returns.
TaskRuns == ipc \in {"input", "shutdown"}

\* launch_upload() without the test of self.task.
launch_upload_always(d) ==
  /\ set_state(d, "STARTING")
  /\ task' = [task EXCEPT ![d] = [pc |-> "new", proc |-> 0, must_cancel |-> FALSE]]

launch_upload(d) ==
  IF task[d].pc = "none" \/ TaskDone(d)
    THEN /\ set_state(d, "STARTING")
         /\ task' = [task EXCEPT ![d] = [pc |-> "new", proc |-> 0, must_cancel |-> FALSE]]
    ELSE UNCHANGED <<state, last_upload, task, Device_history, has_history,
                     inst_history, clock>>

\* stop_upload() without the test of self.state.
stop_upload_any_state(d) ==
  /\ IF task[d].pc # "none" /\ ~TaskDone(d)
       THEN task' = [task EXCEPT ![d].must_cancel = TRUE]
       ELSE UNCHANGED task
  /\ UNCHANGED <<state, last_upload, Device_history, has_history, inst_history, clock>>

stop_upload(d) ==
  /\ IF task[d].pc # "none" /\ ~TaskDone(d) /\ state[d] = "SYNCING"
       THEN task' = [task EXCEPT ![d].must_cancel = TRUE]
       ELSE UNCHANGED task
  /\ UNCHANGED <<state, last_upload, Device_history, has_history, inst_history, clock>>

\* asyncio.run(): once interact() has returned, every unfinished task is cancelled.
cancel_all_tasks ==
  /\ task' = [d \in Devices |->
               IF task[d].pc \in {"new", "reading"}
                 THEN [task[d] EXCEPT !.must_cancel = TRUE]
                 ELSE task[d]]
  /\ UNCHANGED <<state, last_upload, Device_history, has_history, inst_history, clock>>

Commands ==
  {<<"exit">>} \cup {<<v, d>> : v \in {"update", "stop", "clear"}, d \in Devices}

Spawned == Cardinality({p \in Procs : wpc[p] # "unused"})
Pending == Cardinality({d \in Devices : task[d].pc = "new"})

\* do_command(cmd_line) for the commands that change state; list, states,
\* history, help, an unknown command or an unknown device change nothing.
do_command(c) ==
  CASE c[1] = "update" -> launch_upload(c[2])
    [] c[1] = "stop" -> stop_upload(c[2])
    [] OTHER -> clear_history(c[2])

\* interact(), one turn of the loop: cmd = await ainput("> "); "exit" leaves the
\* loop (rundown() does nothing, asyncio.run() then cancels what is left),
\* anything else goes to do_command().
interact ==
  /\ ipc = "input"
  /\ ncmd < MaxCmds
  /\ \E c \in Commands :
       /\ c[1] = "update" => Spawned + Pending < MaxProcs
       /\ cmd_line' = c
       /\ IF c[1] = "exit"
            THEN cancel_all_tasks /\ ipc' = "shutdown"
            ELSE do_command(c) /\ UNCHANGED ipc
  /\ ncmd' = ncmd + 1
  /\ UNCHANGED <<wvars, pipe, weof, hvars>>

\* asyncio.run() returns when every cancelled task has finished; sys.exit(0).
run_exit ==
  /\ ipc = "shutdown"
  /\ \A d \in Devices : task[d].pc \in {"none", "done"}
  /\ ipc' = "ended"
  /\ UNCHANGED <<state, last_upload, task, Device_history, has_history,
                 inst_history, clock, cmd_line, ncmd, wvars, pipe, weof, hvars>>

\* do_upload(), first step: create_subprocess_exec("./deep_ota.py", name, dur, "s")
do_upload_spawn(d) ==
  /\ TaskRuns
  /\ task[d].pc = "new" /\ ~task[d].must_cancel
  /\ Spawned < MaxProcs
  /\ LET p == Spawned + 1 IN
       /\ task' = [task EXCEPT ![d] = [pc |-> "reading", proc |-> p, must_cancel |-> FALSE]]
       /\ wdev' = [wdev EXCEPT ![p] = d]
       /\ wpc' = [wpc EXCEPT ![p] = "compile"]
  /\ UNCHANGED <<state, last_upload, Device_history, has_history, inst_history,
                 clock, ipc, cmd_line, ncmd, wexit, res, device_is_ready, waited,
                 topic_ok, tx, pub, pipe, weof, hvars>>

\* do_upload(), one turn of the reader loop.
do_upload_readline(d) ==
  /\ TaskRuns
  /\ task[d].pc = "reading" /\ ~task[d].must_cancel
  /\ LET p == task[d].proc IN
       IF pipe[p] = <<>>
         THEN \* readline() returns only at end-of-file; at_eof() ends the loop
              /\ at_eof(p, <<>>)
              /\ task' = [task EXCEPT ![d].pc = "done"]
              /\ UNCHANGED <<state, last_upload, Device_history, has_history,
                             inst_history, clock, pipe>>
         ELSE LET line == Head(pipe[p])
                  rest == Tail(pipe[p])
              IN  /\ pipe' = [pipe EXCEPT ![p] = rest]
                  /\ IF at_eof(p, rest)
                       THEN /\ task' = [task EXCEPT ![d].pc = "done"]
                            /\ UNCHANGED <<state, last_upload, Device_history,
                                           has_history, inst_history, clock>>
                       ELSE IF ~LineMatches(line)
                         THEN \* m is None: m.lastindex raises, "Internal error"
                              /\ task' = [task EXCEPT ![d].pc = "done"]
                              /\ UNCHANGED <<state, last_upload, Device_history,
                                             has_history, inst_history, clock>>
                         ELSE IF line[1] = d
                           THEN /\ set_state(d, IF line[2] \in DeviceState
                                                  THEN line[2] ELSE "ERROR")
                                /\ UNCHANGED task
                           ELSE UNCHANGED <<state, last_upload, task, Device_history,
                                            has_history, inst_history, clock>>
  /\ UNCHANGED <<ipc, cmd_line, ncmd, wvars, weof, hvars>>

\* do_upload(), except asyncio.CancelledError: set_state(CANCELLED); proc.kill().
\* A task cancelled before its first step never enters the try block.
do_upload_cancelled(d) ==
  /\ TaskRuns
  /\ task[d].must_cancel
  /\ task[d].pc \in {"new", "reading"}
  /\ task' = [task EXCEPT ![d] = [@ EXCEPT !.pc = "done", !.must_cancel = FALSE]]
  /\ IF task[d].pc = "reading"
       THEN LET p == task[d].proc IN
              /\ set_state(d, "CANCELLED")
              /\ IF wexit[p] = "none"
                   THEN kill(p)
                   ELSE UNCHANGED <<wexit, wpc, res, device_is_ready, waited, tx>>
       ELSE UNCHANGED <<state, last_upload, Device_history, has_history,
                        inst_history, clock, wexit, wpc, res, device_is_ready,
                        waited, tx>>
  /\ UNCHANGED <<ipc, cmd_line, ncmd, wdev, topic_ok, pub, pipe, weof, hvars>>

\* The event loop sees the worker's end of the pipe closed (the process is gone).
pipe_connection_lost(p) ==
  /\ TaskRuns
  /\ wpc[p] = "exited" /\ ~weof[p] /\ pipe[p] = <<>>
  /\ weof' = [weof EXCEPT ![p] = TRUE]
  /\ UNCHANGED <<svars, wvars, pipe, hvars>>

\* ------------------------------------------------------------ worker
\* compile_code(): log COMPILING, then run "esphome compile".
compile_code_begin(p) ==
  /\ wpc[p] = "compile" /\ CanLog(p)
  /\ log(p, "COMPILING")
  /\ goto(p, "compiling")
  /\ UNCHANGED <<svars, wdev, wexit, res, device_is_ready, waited, topic_ok, tx,
                 pub, weof, watched, unacked, heard>>

\* run() that goes on to connect_to_mqtt() after a failed compile.
compile_code_end_no_abort(p) ==
  /\ wpc[p] = "compiling"
  /\ \E rc \in {0, 1} :
       IF rc = 0
         THEN /\ res' = [res EXCEPT ![p] = "OK"]
              /\ log(p, "NONE")
         ELSE /\ CanLog(p)
              /\ res' = [res EXCEPT ![p] = "ERR_COMPILE"]
              /\ log(p, "COMPILE_ERROR")
  /\ goto(p, "connect")
  /\ UNCHANGED <<svars, wdev, wexit, device_is_ready, waited, topic_ok, tx, pub, weof,
                 watched, unacked, heard>>

compile_code_end(p) ==
  /\ wpc[p] = "compiling"
  /\ \E rc \in {0, 1} :
       IF rc = 0
         THEN /\ res' = [res EXCEPT ![p] = "OK"]
              /\ log(p, "NONE")
              /\ goto(p, "connect")
         ELSE /\ CanLog(p)
              /\ res' = [res EXCEPT ![p] = "ERR_COMPILE"]
              /\ log(p, "COMPILE_ERROR")
              /\ goto(p, "final")
  /\ UNCHANGED <<svars, wdev, wexit, device_is_ready, waited, topic_ok, tx, pub, weof,
                 watched, unacked, heard>>

\* connect_to_mqtt(): count = 0; while (count < 5) and not is_connected(): count += 1
\* `delay` is the number of polls after which is_connected() turns true.
RECURSIVE ConnectPolls(_, _)
ConnectPolls(count, delay) ==
  IF count < ConnectRetries /\ ~(delay <= count)
    THEN ConnectPolls(count + 1, delay)
    ELSE count

ConnectDelays == {0, ConnectRetries - 1, ConnectRetries}

connect_to_mqtt(p) ==
  /\ wpc[p] = "connect"
  /\ \E raises \in BOOLEAN, delay \in ConnectDelays :
       IF raises \/ ConnectPolls(0, delay) >= ConnectRetries
         THEN /\ CanLog(p)
              /\ log(p, "MQTT_ERROR")
              /\ res' = [res EXCEPT ![p] = "ERR_MQTT_CONNECT"]
              /\ goto(p, "final")
         ELSE \* connected: subscribe to <device>/ota
              /\ res' = [res EXCEPT ![p] = "OK"]
              /\ log(p, "NONE")
              /\ goto(p, "clear")
  /\ UNCHANGED <<svars, wdev, wexit, device_is_ready, waited, topic_ok, tx, pub, weof,
                 watched, unacked, heard>>

\* The worker is subscribed to <device>/ota and its network thread delivers messages.
Subscribed(p) ==
  wpc[p] \in {"clear", "intent", "wait", "waiting", "wait_check", "transmit",
              "transmitting", "off", "clear2"}

\* end_time > time.time(), in tenths of a second since the wait began
BeforeDeadline(p) == 11 * deep_sleep_duration[wdev[p]] > 10 * waited[p]

\* on_message(): device_is_ready = msg == "READY"
Payloads == {"READY", "BUSY"}
on_message(p, msg) ==
  /\ Subscribed(p)
  /\ device_is_ready' = [device_is_ready EXCEPT ![p] = (msg = "READY")]
  /\ heard' = [heard EXCEPT ![p] =
                 IF p \in watched /\ msg = "READY" /\ wpc[p] \in {"wait", "waiting"}
                   THEN IF BeforeDeadline(p) THEN "intime"
                        ELSE IF @ = "no" THEN "late" ELSE @
                   ELSE @]
  /\ UNCHANGED <<svars, wdev, wpc, wexit, res, waited, topic_ok, tx, pub, pipe, weof,
                 watched, out, unacked>>

\* send_msg(): count = 0; while (count >= 5) and not result.is_published(): count += 1
\* `delay` is the number of polls after which is_published() turns true.
RECURSIVE PublishPolls(_, _)
PublishPolls(count, delay) ==
  IF count >= PublishRetries /\ ~(delay <= count)
    THEN PublishPolls(count + 1, delay)
    ELSE count

PublishDelays == {0, PublishRetries}

\* send_msg()'s return value: False when publish() raised or count >= 5.
send_msg_result(raises, delay) ==
  ~raises /\ ~(PublishPolls(0, delay) >= PublishRetries)

\* send_msg()'s effects: the publish, and the MQTT_ERROR line when it fails.
send_msg(p, payload, raises, delay) ==
  /\ pub' = [pub EXCEPT ![p] = IF raises THEN @ ELSE Append(@, payload)]
  /\ unacked' = [unacked EXCEPT ![p] =
                   IF p \in watched /\ ~raises /\ ~(delay <= PublishPolls(0, delay))
                     THEN Append(@, payload) ELSE @]
  /\ IF send_msg_result(raises, delay)
       THEN log(p, "NONE")
       ELSE CanLog(p) /\ log(p, "MQTT_ERROR")

\* run(): if res == Result.OK: res = clear_topic()
\* The run's first publish: it raises iff the request topic is invalid.
clear_topic(p) ==
  /\ wpc[p] = "clear"
  /\ \E raises \in BOOLEAN, delay \in PublishDelays :
       /\ topic_ok' = [topic_ok EXCEPT ![p] = ~raises]
       /\ send_msg(p, Clear, raises, delay)
       /\ IF send_msg_result(raises, delay)
            THEN res' = [res EXCEPT ![p] = "OK"] /\ goto(p, "intent")
            ELSE res' = [res EXCEPT ![p] = "ERR_MQTT_SEND"] /\ goto(p, "final")
  /\ UNCHANGED <<svars, wdev, wexit, device_is_ready, waited, tx, weof, watched, heard>>

\* run(): if res == Result.OK: res = send_ota_intent()
send_ota_intent(p) ==
  /\ wpc[p] = "intent"
  /\ \E delay \in PublishDelays :
       /\ send_msg(p, "ON", ~topic_ok[p], delay)
       /\ IF send_msg_result(~topic_ok[p], delay)
            THEN res' = [res EXCEPT ![p] = "OK"] /\ goto(p, "wait")
            ELSE res' = [res EXCEPT ![p] = "ERR_MQTT_SEND"] /\ goto(p, "final")
  /\ UNCHANGED <<svars, wdev, wexit, device_is_ready, waited, topic_ok, tx, weof,
                 watched, heard>>

\* wait_for_device_ready(): end_time = time.time() + 1.1 * duration; log SYNCING
wait_begin(p) ==
  /\ wpc[p] = "wait" /\ CanLog(p)
  /\ log(p, "SYNCING")
  /\ waited' = [waited EXCEPT ![p] = 0]
  /\ goto(p, "waiting")
  /\ UNCHANGED <<svars, wdev, wexit, res, device_is_ready, topic_ok, tx, pub, weof,
                 watched, unacked, heard>>

\* while (end_time > time.time()) and not device_is_ready: time.sleep(1)
wait_poll(p) ==
  /\ wpc[p] = "waiting"
  /\ IF BeforeDeadline(p) /\ ~device_is_ready[p]
       THEN waited' = [waited EXCEPT ![p] = @ + 1] /\ UNCHANGED wpc
       ELSE goto(p, "wait_check") /\ UNCHANGED waited
  /\ UNCHANGED <<svars, wdev, wexit, res, device_is_ready, topic_ok, tx, pub, pipe, weof,
                 hvars>>

\* wait_for_device_ready() that returns OK whether or not the device is ready.
wait_check_always_ok(p) ==
  /\ wpc[p] = "wait_check"
  /\ res' = [res EXCEPT ![p] = "OK"] /\ goto(p, "transmit")
  /\ UNCHANGED <<svars, wdev, wexit, device_is_ready, waited, topic_ok, tx, pub, pipe, weof,
                 hvars>>

\* if not device_is_ready: return ERR_TIMEOUT; return OK
wait_check(p) ==
  /\ wpc[p] = "wait_check"
  /\ IF ~device_is_ready[p]
       THEN res' = [res EXCEPT ![p] = "ERR_TIMEOUT"] /\ goto(p, "off")
       ELSE res' = [res EXCEPT ![p] = "OK"] /\ goto(p, "transmit")
  /\ UNCHANGED <<svars, wdev, wexit, device_is_ready, waited, topic_ok, tx, pub, pipe, weof,
                 hvars>>

\* transmit_code(): log UPLOADING, then run "esphome upload".
transmit_code_begin(p) ==
  /\ wpc[p] = "transmit" /\ CanLog(p)
  /\ log(p, "UPLOADING")
  /\ goto(p, "transmitting")
  /\ UNCHANGED <<svars, wdev, wexit, res, device_is_ready, waited, topic_ok, tx, pub, weof,
                 watched, unacked, heard>>

transmit_code_end(p) ==
  /\ wpc[p] = "transmitting"
  /\ \E rc \in {0, 1} :
       /\ tx' = [tx EXCEPT ![p] = IF rc = 0 THEN "0" ELSE "1"]
       /\ IF rc = 0
            THEN /\ res' = [res EXCEPT ![p] = "OK"]
                 /\ log(p, "NONE")
            ELSE /\ CanLog(p)
                 /\ res' = [res EXCEPT ![p] = "ERR_TRANSMIT"]
                 /\ log(p, "TRANSMIT_ERROR")
  /\ goto(p, "off")
  /\ UNCHANGED <<svars, wdev, wexit, device_is_ready, waited, topic_ok, pub, weof,
                 watched, unacked, heard>>

\* finally: send_ota_completed(); time.sleep(5)
send_ota_completed(p) ==
  /\ wpc[p] = "off"
  /\ \E delay \in PublishDelays : send_msg(p, "OFF", ~topic_ok[p], delay)
  /\ goto(p, "clear2")
  /\ UNCHANGED <<svars, wdev, wexit, res, device_is_ready, waited, topic_ok, tx, weof,
                 watched, heard>>

\* finally: clear_topic(); time.sleep(5)
clear_topic_final(p) ==
  /\ wpc[p] = "clear2"
  /\ \E delay \in PublishDelays : send_msg(p, Clear, ~topic_ok[p], delay)
  /\ goto(p, "final")
  /\ UNCHANGED <<svars, wdev, wexit, res, device_is_ready, waited, topic_ok, tx, weof,
                 watched, heard>>

\* { Result.OK: SUCCESS, Result.ERR_TIMEOUT: SYNCING_ERROR }.get(res, ERROR)
EndState(r) ==
  CASE r = "OK" -> "SUCCESS"
    [] r = "ERR_TIMEOUT" -> "SYNCING_ERROR"
    [] OTHER -> "ERROR"

\* sys.exit({ Result.OK: 0, Result.ERR_TIMEOUT: 2 }.get(res, 1))
ExitStatus(r) ==
  CASE r = "OK" -> "0"
    [] r = "ERR_TIMEOUT" -> "2"
    [] OTHER -> "1"

\* run(): log("End Result ...", EndState)
end_result(p) ==
  /\ wpc[p] = "final" /\ CanLog(p)
  /\ log(p, EndState(res[p]))
  /\ goto(p, "end")
  /\ UNCHANGED <<svars, wdev, wexit, res, device_is_ready, waited, topic_ok, tx, pub, weof,
                 watched, unacked, heard>>

\* run(): log("End of job.", END); sys.exit(...)
end_of_job(p) ==
  /\ wpc[p] = "end" /\ CanLog(p)
  /\ log(p, "END")
  /\ exit(p, ExitStatus(res[p]))
  /\ UNCHANGED <<svars, wdev, topic_ok, pub, weof, watched, unacked, heard>>

\* SIGINT: KeyboardInterrupt in the main thread.  Inside run()'s try block it is
\* caught ("Aborting...") and the finally clause runs with res as it was;
\* anywhere else it ends the process.  ("wait" is the way from the ON publish
\* to the try block.)
InTry == {"waiting", "wait_check", "transmit", "transmitting"}

\* run() with the except clause and no finally clause.
keyboard_interrupt_no_finally(p) ==
  /\ Running(p)
  /\ IF wpc[p] \in InTry
       THEN goto(p, "final") /\ UNCHANGED <<wexit, res, device_is_ready, waited, tx>>
       ELSE exit(p, "SIGINT")
  /\ UNCHANGED <<svars, wdev, topic_ok, pub, pipe, weof, hvars>>

keyboard_interrupt(p) ==
  /\ Running(p)
  /\ IF wpc[p] \in InTry
       THEN goto(p, "off") /\ UNCHANGED <<wexit, res, device_is_ready, waited, tx>>
       ELSE exit(p, "SIGINT")
  /\ UNCHANGED <<svars, wdev, topic_ok, pub, pipe, weof, hvars>>

\* ------------------------------------------------------- specification
\* The state after the device table is built and before the first command.
Start ==
  /\ state = [d \in Devices |-> "NONE"]
  /\ last_upload = [d \in Devices |-> -1]
  /\ task = [d \in Devices |-> NoTask]
  /\ Device_history = <<>>
  /\ has_history = [d \in Devices |-> FALSE]
  /\ inst_history = [d \in Devices |-> <<>>]
  /\ clock = 0
  /\ ipc = "input"
  /\ cmd_line = NoCmd
  /\ ncmd = 0
  /\ wdev = [p \in Procs |-> <<>>]
  /\ wpc = [p \in Procs |-> "unused"]
  /\ wexit = [p \in Procs |-> "none"]
  /\ res = [p \in Procs |-> "OK"]
  /\ device_is_ready = [p \in Procs |-> FALSE]
  /\ waited = [p \in Procs |-> 0]
  /\ topic_ok = [p \in Procs |-> TRUE]
  /\ tx = [p \in Procs |-> "none"]
  /\ pub = [p \in Procs |-> <<>>]
  /\ pipe = [p \in Procs |-> <<>>]
  /\ weof = [p \in Procs |-> FALSE]
  /\ out = [p \in Procs |-> <<>>]
  /\ unacked = [p \in Procs |-> <<>>]
  /\ heard = [p \in Procs |-> "no"]

Init == Start /\ watched = {}

Supervisor ==
  \/ interact
  \/ run_exit
  \/ \E d \in Devices : do_upload_spawn(d)
  \/ \E d \in Devices : do_upload_readline(d)
  \/ \E d \in Devices : do_upload_cancelled(d)
  \/ \E p \in Procs : pipe_connection_lost(p)

\* run(), statement after statement
Pipeline(p) ==
  \/ compile_code_begin(p)
  \/ compile_code_end(p)
  \/ connect_to_mqtt(p)
  \/ clear_topic(p)
  \/ send_ota_intent(p)
  \/ wait_begin(p)
  \/ wait_poll(p)
  \/ wait_check(p)
  \/ transmit_code_begin(p)
  \/ transmit_code_end(p)
  \/ send_ota_completed(p)
  \/ clear_topic_final(p)
  \/ end_result(p)
  \/ end_of_job(p)

\* A worker process: its main thread, paho's network thread, a signal.
Worker(p) ==
  \/ Pipeline(p)
  \/ \E msg \in Payloads : on_message(p, msg)
  \/ keyboard_interrupt(p)

Next == Supervisor \/ \E p \in Procs : Worker(p)

Spec == Init /\ [][Next]_vars

\* One supervised worker run, recorded: the operator types "update k" and
\* nothing else, and no signal reaches the worker.  The worker is a sequential
\* program whose every statement returns (esphome ends, sleep(1) ends, a write
\* to stdout ends because the reader task of a device named like "k" keeps
\* reading), and the event loop runs every ready task: weak fairness of both.
RunInit == Start /\ watched = Procs

RunNext ==
  \/ interact /\ ncmd = 0 /\ cmd_line' = <<"update", DevK>>
  \/ do_upload_spawn(DevK)
  \/ do_upload_readline(DevK)
  \/ \E p \in Procs : pipe_connection_lost(p)
  \/ \E p \in Procs : Pipeline(p)
  \/ \E p \in Procs, msg \in Payloads : on_message(p, msg)

RunSpec ==
  /\ RunInit
  /\ [][RunNext]_vars
  /\ WF_vars(do_upload_spawn(DevK))
  /\ WF_vars(do_upload_readline(DevK))
  /\ WF_vars(\E p \in Procs : Pipeline(p))

\* ------------------------------------------------------------ claims
Last(q) == q[Len(q)]
IsPrefix(q, r) == Len(q) <= Len(r) /\ SubSeq(r, 1, Len(q)) = q

\* What worker p published on the request topic around its ON intent.
HasOn(p) == \E i \in 1..Len(pub[p]) : pub[p][i] = "ON"
AfterOn(p) ==
  LET i == CHOOSE j \in 1..Len(pub[p]) : pub[p][j] = "ON"
  IN  SubSeq(pub[p], i + 1, Len(pub[p]))
Released(p) == AfterOn(p) = <<"OFF", Clear>>

\* A device's record in the device table.
Record(d) == <<state[d], last_upload[d], task[d], history(d)>>

\* The step is interact() taking command line c.
Typed(c) == ncmd' = ncmd + 1 /\ cmd_line' = c

\* C1: no device ever has more than one live worker process at the same time.
C1_OneWorkerPerDevice ==
  \A d \in Devices : Cardinality({p \in Procs : wdev[p] = d /\ Running(p)}) <= 1

\* C2: once a stop has been honored (the front end is still at its prompt and
\* the device's task ended in CANCELLED), the worker is terminated and, if it
\* had published ON, its OFF and clear were published, once each, in that order.
C2_StopRunsCleanup ==
  \A d \in Devices :
    (ipc = "input" /\ state[d] = "CANCELLED" /\ task[d].pc = "done") =>
      LET p == task[d].proc
      IN  ~Running(p) /\ (HasOn(p) => Released(p))

\* C3: when the front end has ended after an exit, every task that exit
\* cancelled has a worker that is gone and, if it had published ON, has
\* published its OFF and clear.
C3_ShutdownRunsCleanup ==
  ipc = "ended" =>
    \A d \in Devices :
      (task[d].pc = "done" /\ state[d] = "CANCELLED") =>
        LET p == task[d].proc
        IN  ~Running(p) /\ (HasOn(p) => Released(p))

\* C4: during the shutdown after exit, a worker that is in its transmit step
\* (esphome upload running) is not killed.
C4_ExitWaitsForUpload ==
  [][\A p \in Procs :
       (ipc = "shutdown" /\ wpc[p] = "transmitting") => wexit'[p] # "SIGKILL"]_vars

\* C5: a worker that has published ON publishes, after it, OFF and then a
\* clear, each at most once and in that order, and has published both by the
\* time it is about to emit its final state, and so when it has exited by
\* sys.exit.
Concluded(p) == wpc[p] \in {"final", "end"} \/ wexit[p] \in {"0", "1", "2"}
C5_WakeReleased ==
  \A p \in Procs :
    HasOn(p) =>
      /\ IsPrefix(AfterOn(p), <<"OFF", Clear>>)
      /\ Concluded(p) => Released(p)

\* C5's case: ON was published, the wait was interrupted (res is still OK, no
\* transmit ran) and the worker is about to report its final state.
C5_Witness ==
  \E p \in Procs :
    wpc[p] = "final" /\ HasOn(p) /\ res[p] = "OK" /\ tx[p] = "none" /\ Released(p)

\* C6: the worker reports SUCCESS, and exits with status 0, only when the
\* transmit step returned exit code zero; it exits with status 2 only after
\* the wake wait timed out.
C6_ExitStatus ==
  [][\A p \in Procs :
       /\ (wexit[p] = "none" /\ wexit'[p] = "0") => tx[p] = "0"
       /\ (wexit[p] = "none" /\ wexit'[p] = "2") => res[p] = "ERR_TIMEOUT"
       /\ (Len(pipe'[p]) > Len(pipe[p]) /\ Last(pipe'[p])[2] = "SUCCESS") => tx[p] = "0"]_vars

\* C7: when the reader loop takes a line that does not match the pattern, the
\* device's state becomes ERROR and the loop goes on reading.
C7_MalformedLineSetsError ==
  [][\A d \in Devices :
       LET p == task[d].proc IN
         (/\ task[d].pc = "reading"
          /\ Len(pipe'[p]) < Len(pipe[p])
          /\ ~LineMatches(Head(pipe[p])))
         => (state'[d] = "ERROR" /\ task'[d].pc = "reading")]_vars

\* C8: a stop typed while the device's state is not SYNCING changes neither the
\* device's state, history, last upload or task (no cancellation is requested)
\* nor any worker process.
C8_StopRefused ==
  [][\A d \in Devices :
       (Typed(<<"stop", d>>) /\ state[d] # "SYNCING") =>
         /\ Record(d)' = Record(d)
         /\ UNCHANGED <<wpc, wexit>>]_vars

\* C8's case: a stop was typed for a device whose task was running outside
\* SYNCING, and the task and its worker went on to UPLOADING.
C8_Witness ==
  /\ cmd_line = <<"stop", DevK>>
  /\ state[DevK] = "UPLOADING"
  /\ task[DevK].pc = "reading" /\ ~task[DevK].must_cancel
  /\ Running(task[DevK].proc)

\* C9: a step of the front end other than exit changes at most one device's
\* record (state, last upload, task, history).
C9_OtherDevicesUnchanged ==
  [][ipc' = ipc =>
       \A d, e \in Devices :
         (d # e /\ Record(d)' # Record(d)) => Record(e)' = Record(e)]_vars

\* C10: a device's history changes only by one entry appended at its end or by
\* that device's clear; every set_state appends one entry holding the new
\* state and the time; clear empties the history and leaves the device's
\* state, last upload and task as they were.
C10_HistoryAppendOnly ==
  [][/\ \A d \in Devices :
          LET h == history(d)
              h2 == history(d)'
              cleared == /\ Typed(<<"clear", d>>)
                         /\ h2 = <<>>
                         /\ state'[d] = state[d]
                         /\ last_upload'[d] = last_upload[d]
                         /\ task'[d] = task[d]
          IN  /\ h2 = h \/ (Len(h2) = Len(h) + 1 /\ IsPrefix(h, h2)) \/ cleared
              /\ Typed(<<"clear", d>>) => cleared
              /\ state'[d] # state[d] =>
                   /\ Len(h2) = Len(h) + 1 /\ IsPrefix(h, h2)
                   /\ Last(h2) = <<clock', state'[d]>>
     /\ clock' # clock =>
          \E d \in Devices :
            /\ Len(history(d)') = Len(history(d)) + 1
            /\ Last(history(d)') = <<clock', state'[d]>>]_vars

\* C10's case: the device was set to states, its history was cleared while its
\* state stayed, and one more state was then appended to the emptied history.
C10_Witness ==
  /\ cmd_line = <<"clear", DevK>>
  /\ state[DevK] = "SYNCING"
  /\ Len(history(DevK)) = 1
  /\ Last(history(DevK))[2] = "SYNCING"

\* The states that report how a run concluded.
Outcomes ==
  {"SUCCESS", "CANCELLED", "MQTT_ERROR", "SYNCING_ERROR", "COMPILE_ERROR",
   "TRANSMIT_ERROR", "ERROR"}
SpecificErrors == {"MQTT_ERROR", "SYNCING_ERROR", "COMPILE_ERROR", "TRANSMIT_ERROR"}
Lines(p) == {out[p][i] : i \in 1..Len(out[p])}
Finished(p) == wexit[p] \in {"0", "1", "2"}

\* C11: the status lines of a worker run that ended by sys.exit are COMPILING,
\* then possibly SYNCING and UPLOADING, then exactly one outcome state, then
\* END as the last line; and at any time no outcome state follows a specific
\* error state.
C11_OneOutcomeThenEnd ==
  \A p \in Procs :
    LET o == out[p]
        n == Len(o)
    IN  /\ \A i \in 1..n : \A j \in (i + 1)..n :
             o[i] \in SpecificErrors => o[j] \notin Outcomes
        /\ Finished(p) =>
             /\ n >= 3
             /\ o[1] = "COMPILING"
             /\ o[n] = "END"
             /\ o[n - 1] \in Outcomes
             /\ \A i \in 2..(n - 2) : o[i] \in {"SYNCING", "UPLOADING"}

\* The step calls set_state() of device d: in launch_upload, or in d's task.
SetsState(d) ==
  /\ clock' # clock
  /\ \/ Typed(<<"update", d>>)
     \/ task'[d].pc # task[d].pc
     \/ /\ task[d].pc = "reading"
        /\ Len(pipe'[task[d].proc]) < Len(pipe[task[d].proc])

\* C12: while the front end is at its prompt, an update of a device with no
\* unfinished task sets its state to STARTING in that very step, and the next
\* state recorded for a device in STARTING is COMPILING.
C12_StartingThenCompiling ==
  [][ipc' = "input" =>
       \A d \in Devices :
         /\ (Typed(<<"update", d>>) /\ task[d].pc \in {"none", "done"})
              => state'[d] = "STARTING"
         /\ (state[d] = "STARTING" /\ SetsState(d)) => state'[d] = "COMPILING"]_vars

\* C13: an update typed while the device has an unfinished task changes neither
\* the device's state, history, last upload or task, nor any worker process
\* (none is spawned, none is ended), and the task stays unfinished.
C13_StartRefused ==
  [][\A d \in Devices :
       (Typed(<<"update", d>>) /\ task[d].pc \in {"new", "reading"}) =>
         /\ Record(d)' = Record(d)
         /\ clock' = clock
         /\ UNCHANGED <<wdev, wpc, wexit, pipe>>]_vars

\* C13's case: a second update of the device was typed while its first task
\* was running; there is still one STARTING in the history, one worker, and
\* the task has gone on reading it.
C13_Witness ==
  /\ ncmd = 2 /\ cmd_line = <<"update", DevK>>
  /\ task[DevK].pc = "reading" /\ Running(task[DevK].proc)
  /\ state[DevK] = "SYNCING"
  /\ history(DevK) = <<<<1, "STARTING">>, <<2, "COMPILING">>, <<3, "SYNCING">>>>
  /\ Spawned = 1

\* The run timed out: it ended with status 2, having reported SYNCING_ERROR
\* and no generic ERROR, without an UPLOADING line, after releasing the wake.
TimedOut(p) ==
  /\ wexit[p] = "2"
  /\ out[p] = <<"COMPILING", "SYNCING", "SYNCING_ERROR", "END">>
  /\ pub[p] = <<Clear, "ON", "OFF", Clear>>

\* C14: if no READY ever arrives, a worker in its wake wait eventually ends
\* as TimedOut (SYNCING_ERROR, no transmit, exit status 2), and it leaves
\* the wait loop only when the deadline has passed.
C14_TimeoutLeadsToSyncingError ==
  ([](\A q \in Procs : ~device_is_ready[q])) =>
    /\ \A p \in Procs : (wpc[p] = "waiting") ~> TimedOut(p)
    /\ [](\A p \in Procs : wpc[p] = "wait_check" => ~BeforeDeadline(p))

\* C14's case: a run that waited through its deadline without a READY and
\* ended as timed out.
C14_Witness ==
  \E p \in Procs : TimedOut(p) /\ heard[p] = "no" /\ unacked[p] = <<>>

\* The results of a failed compile, connect or publish step.
FailedStep == {"ERR_COMPILE", "ERR_MQTT_CONNECT", "ERR_MQTT_SEND"}

C16_StopSparesTransmit ==
  [][/\ \A p \in Procs :
          (ipc = "input" /\ wpc[p] = "transmitting") => wexit'[p] # "SIGKILL"
     /\ \A d \in Devices :
          (/\ Typed(<<"stop", d>>)
           /\ task[d].pc = "reading"
           /\ wpc[task[d].proc] = "transmitting")
          => ~task'[d].must_cancel]_vars

\* C17: a publish of the initial clear or of ON that was not confirmed when
\* send_msg() returned makes the worker report MQTT_ERROR and abort: the worker
\* is about to publish ON only with its clear confirmed, and enters the wake
\* wait only with its clear and its ON confirmed.
C17_UnconfirmedPublishFails ==
  \A p \in Procs :
    /\ wpc[p] \in {"intent", "wait", "waiting"} => unacked[p] = <<>>
    /\ (unacked[p] # <<>> /\ wpc[p] \notin {"off", "clear2"} /\ Len(pub[p]) <= 2)
         => (wpc[p] \in {"final", "end", "exited"} /\ "MQTT_ERROR" \in Lines(p))

\* C18: a worker to which a READY was delivered after its ON publish and
\* before the deadline of its wait does not report SYNCING_ERROR, and has
\* emitted UPLOADING when it has ended.
C18_ReadyLeadsToUpload ==
  \A p \in Procs :
    heard[p] = "intime" =>
      /\ "SYNCING_ERROR" \notin Lines(p)
      /\ Finished(p) => "UPLOADING" \in Lines(p)

\* C19: a worker is in its transmit step, or has emitted UPLOADING, only if a
\* READY was delivered to it after its ON publish.
C19_UploadNeedsReadyAfterOn ==
  \A p \in Procs :
    (wpc[p] \in {"transmit", "transmitting"} \/ "UPLOADING" \in Lines(p))
      => heard[p] # "no"

====
